---- MODULE Spec2Model ----
(***************************************************************************)
(* StaticEngine of scrapling/engines/static.py: header synthesis           *)
(* (_headers_job), the four request operations (get/post/put/delete) and   *)
(* response normalisation (_prepare_response).                             *)
(*                                                                         *)
(* Python values are modelled as follows.                                  *)
(*   - Optional[T]: the empty set for None, {v} for a value v.             *)
(*   - dict: a function whose DOMAIN is the set of keys.                   *)
(*   - **kwargs: the set of option names the caller passed; the value of   *)
(*     kwargs['headers'] is the caller-owned dict object callerMap.        *)
(***************************************************************************)
EXTENDS Integers, FiniteSets, Sequences, TLC

VARIABLES
    timeout,            \* self.timeout (Optional number)
    follow_redirects,   \* self.follow_redirects
    adaptor_arguments,  \* self.adaptor_arguments
    extra_headers,      \* self._extra_headers
    callerMap,          \* content of the caller-owned dict object
    built,              \* what the caller last put into that object
    pc,                 \* "new" | "returned" | "raised": how the last call ended
    stealth,            \* stealthy_headers of the last call
    target,             \* url of the last call
    supplied,           \* Optional: kwargs.get('headers') as it was at call time
    headers,            \* the mapping _headers_job returned in the last call
    invoked,            \* number of times the last call invoked the httpx client
    sent,               \* Optional: the request the httpx client was invoked with
    response,           \* Optional: the httpx response the client returned
    clientError,        \* the failure the httpx client raised ("" if none)
    error,              \* the failure the last call ended with ("" if none)
    result              \* Optional: the Response the last call returned

vars == <<timeout, follow_redirects, adaptor_arguments, extra_headers,
          callerMap, built, pc, stealth, target, supplied, headers, invoked, sent, response,
          clientError, error, result>>

----------------------------------------------------------------------------
(* Bounds of the model *)

\* largest number of keys in a dict the caller builds
MaxHdrs == 2

None == {}
Some(v) == {v}
TheValue(opt) == CHOOSE v \in opt : TRUE

EmptyDict == [k \in {} |-> ""]

\* header names the caller may use
Keys == {"User-Agent", "user-agent", "USER-AGENT", "Referer", "Accept"}

\* str.lower() on the header names of the model
Lower(k) ==
    CASE k \in {"User-Agent", "user-agent", "USER-AGENT"} -> "user-agent"
      [] k \in {"Referer", "referer"} -> "referer"
      [] k = "Accept" -> "accept"
      [] OTHER -> k

\* the dicts the caller builds: at most MaxHdrs keys, every value "X"
CallerDicts ==
    { [k \in D |-> "X"] : D \in { S \in SUBSET Keys : Cardinality(S) <= MaxHdrs } }

URLs == {"https://example.com", "https://test.org"}

\* tldextract's registrable-domain name of the model's URLs
DomainOf(url) == IF url = "https://example.com" THEN "example" ELSE "test"

\* toolbelt.generate_convincing_referer(url)
generate_convincing_referer(url) == "https://www.google.com/search?q=" \o DomainOf(url)

\* the values the user-agent generator produces
UserAgents == {"UA1"}

\* toolbelt.generate_headers(browser_mode=False): the possible return values
generate_headers ==
    { [k \in {"User-Agent", "Accept"} |-> IF k = "User-Agent" THEN ua ELSE "text/html"] :
        ua \in UserAgents }

----------------------------------------------------------------------------
(* dict operations *)

\* dict.get(k) is truthy: the key is present with a non-empty value
Truthy(d, k) == k \in DOMAIN d /\ d[k] # ""

\* d.update(e)
Update(d, e) ==
    [k \in DOMAIN d \cup DOMAIN e |-> IF k \in DOMAIN e THEN e[k] ELSE d[k]]

\* keys of d equal to name under case-insensitive comparison
KeysCI(d, name) == { k \in DOMAIN d : Lower(k) = name }

----------------------------------------------------------------------------
(* StaticEngine._headers_job(headers, url, stealth): arg is                *)
(* kwargs.get('headers'), g1 and g2 are what the two generate_headers      *)
(* calls return.                                                           *)

\* line 33: headers = headers or {}
HeadersOrEmpty(arg) ==
    IF arg = None \/ TheValue(arg) = EmptyDict THEN EmptyDict ELSE TheValue(arg)

\* line 33: the local name is bound to the caller's object (no copy is made)
Aliased(arg) == arg # None /\ TheValue(arg) # EmptyDict

\* a variant that never inserts a user agent
ValidateHeaders_NoInsert(h, g1) == h

\* lines 36-38: insert a generated User-Agent unless 'user-agent' or
\* 'User-Agent' is present with a non-empty value
ValidateHeaders(h, g1) ==
    IF ~Truthy(h, "user-agent") /\ ~Truthy(h, "User-Agent")
    THEN Update(h, [k \in {"User-Agent"} |-> g1["User-Agent"]])
    ELSE h

\* a variant in which the supplied headers win over the generated ones
StealthHeaders_SuppliedWins(h, url, st, g2) ==
    IF st
    THEN Update(Update(g2, h), [k \in {"referer"} |-> generate_convincing_referer(url)])
    ELSE h

\* lines 40-43: overlay the generated headers, then set 'referer'
StealthHeaders(h, url, st, g2) ==
    IF st
    THEN Update(Update(h, g2), [k \in {"referer"} |-> generate_convincing_referer(url)])
    ELSE h

_headers_job(arg, url, st, g1, g2) ==
    StealthHeaders(ValidateHeaders(HeadersOrEmpty(arg), g1), url, st, g2)

----------------------------------------------------------------------------
(* The httpx client, as far as the engine sees it *)

\* the failures the client may raise during dispatch
ClientErrors == {"ConnectError", "ReadTimeout"}

\* what the network does with one request: the failure raised ("" for none),
\* or the status code and the declared encoding of the response
Replies ==
    { [err |-> e, status_code |-> 0, encoding |-> None] : e \in ClientErrors }
    \cup
    { [err |-> "", status_code |-> 200, encoding |-> Some("latin-1")],
      [err |-> "", status_code |-> 404, encoding |-> None] }

\* httpx.URL of the model's URLs
URLObject(url) ==
    IF url = "https://example.com"
    THEN [scheme |-> "https", host |-> "example.com"]
    ELSE [scheme |-> "https", host |-> "test.org"]

\* str(httpx.URL)
str(u) == u.scheme \o "://" \o u.host

\* dict(m) of a mapping m
dict(m) == [k \in DOMAIN m |-> m[k]]

\* the httpx response to request req under reply
RawResponse(req, reply) ==
    [url           |-> URLObject(req.url),
     text          |-> IF reply.status_code = 200 THEN "<html>ok</html>"
                       ELSE "<html>missing</html>",
     content       |-> IF reply.status_code = 200 THEN <<111, 107>> ELSE <<110, 111>>,
     status_code   |-> reply.status_code,
     reason_phrase |-> IF reply.status_code = 200 THEN "OK" ELSE "Not Found",
     encoding      |-> reply.encoding,
     cookies       |-> [k \in {"sid"} |-> "c1"],
     headers       |-> [k \in {"content-type"} |-> "text/html"],
     request       |-> [headers |-> req.headers]]

----------------------------------------------------------------------------
(* StaticEngine._prepare_response(self, response) *)

\* a variant that takes the response headers from the request
_prepare_response_Swapped(self, resp) ==
    [url               |-> str(resp.url),
     text              |-> resp.text,
     content           |-> resp.content,
     status            |-> resp.status_code,
     reason            |-> resp.reason_phrase,
     encoding          |-> IF resp.encoding = None THEN "utf-8"
                           ELSE TheValue(resp.encoding),
     cookies           |-> dict(resp.cookies),
     headers           |-> dict(resp.request.headers),
     request_headers   |-> dict(resp.headers),
     adaptor_arguments |-> self.adaptor_arguments]

_prepare_response(self, resp) ==
    [url               |-> str(resp.url),
     text              |-> resp.text,
     content           |-> resp.content,
     status            |-> resp.status_code,
     reason            |-> resp.reason_phrase,
     encoding          |-> IF resp.encoding = None THEN "utf-8"
                           ELSE TheValue(resp.encoding),
     cookies           |-> dict(resp.cookies),
     headers           |-> dict(resp.headers),
     request_headers   |-> dict(resp.request.headers),
     adaptor_arguments |-> self.adaptor_arguments]

----------------------------------------------------------------------------
(* Dispatch and normalisation: lines 75-76 (87-88, 99-100, 111-112)       *)

\* the option names the call expression already passes by keyword; Python
\* raises TypeError when **kwargs repeats one of them
ExplicitKeywords == {"headers", "follow_redirects", "timeout"}

\* the option names the caller may pass
KwNames == {"headers"}

Collides(kw) == kw \cap ExplicitKeywords # {}

\* the request the httpx function is called with
Request(self, method, url, hdrs, kw) ==
    [method           |-> method,
     url              |-> url,
     headers          |-> hdrs,
     follow_redirects |-> self.follow_redirects,
     timeout          |-> self.timeout,
     options          |-> kw]

\* a dispatch variant that catches the client's failure and raises its own
dispatch_Wrapped(self, method, url, hdrs, kw, reply) ==
    IF Collides(kw)
    THEN [pc |-> "raised", invoked |-> 0, sent |-> None, response |-> None,
          clientError |-> "", error |-> "TypeError", result |-> None]
    ELSE IF reply.err # ""
    THEN [pc |-> "raised", invoked |-> 1,
          sent |-> Some(Request(self, method, url, hdrs, kw)), response |-> None,
          clientError |-> reply.err, error |-> "RequestFailed", result |-> None]
    ELSE [pc |-> "returned", invoked |-> 1,
          sent |-> Some(Request(self, method, url, hdrs, kw)),
          response |-> Some(RawResponse(Request(self, method, url, hdrs, kw), reply)),
          clientError |-> "", error |-> "",
          result |-> Some(_prepare_response(self,
                        RawResponse(Request(self, method, url, hdrs, kw), reply)))]

\* a dispatch variant that calls raise_for_status() on the httpx response
dispatch_RaiseForStatus(self, method, url, hdrs, kw, reply) ==
    IF Collides(kw)
    THEN [pc |-> "raised", invoked |-> 0, sent |-> None, response |-> None,
          clientError |-> "", error |-> "TypeError", result |-> None]
    ELSE IF reply.err # ""
    THEN [pc |-> "raised", invoked |-> 1,
          sent |-> Some(Request(self, method, url, hdrs, kw)), response |-> None,
          clientError |-> reply.err, error |-> reply.err, result |-> None]
    ELSE IF reply.status_code >= 400
    THEN [pc |-> "raised", invoked |-> 1,
          sent |-> Some(Request(self, method, url, hdrs, kw)),
          response |-> Some(RawResponse(Request(self, method, url, hdrs, kw), reply)),
          clientError |-> "", error |-> "HTTPStatusError", result |-> None]
    ELSE [pc |-> "returned", invoked |-> 1,
          sent |-> Some(Request(self, method, url, hdrs, kw)),
          response |-> Some(RawResponse(Request(self, method, url, hdrs, kw), reply)),
          clientError |-> "", error |-> "",
          result |-> Some(_prepare_response(self,
                        RawResponse(Request(self, method, url, hdrs, kw), reply)))]

\* how the call ends once the headers are synthesised: TypeError when the
\* keyword arguments collide, else the client's failure, else the Response
dispatch(self, method, url, hdrs, kw, reply) ==
    IF Collides(kw)
    THEN [pc |-> "raised", invoked |-> 0, sent |-> None, response |-> None,
          clientError |-> "", error |-> "TypeError", result |-> None]
    ELSE IF reply.err # ""
    THEN [pc |-> "raised", invoked |-> 1,
          sent |-> Some(Request(self, method, url, hdrs, kw)), response |-> None,
          clientError |-> reply.err, error |-> reply.err, result |-> None]
    ELSE [pc |-> "returned", invoked |-> 1,
          sent |-> Some(Request(self, method, url, hdrs, kw)),
          response |-> Some(RawResponse(Request(self, method, url, hdrs, kw), reply)),
          clientError |-> "", error |-> "",
          result |-> Some(_prepare_response(self,
                        RawResponse(Request(self, method, url, hdrs, kw), reply)))]

----------------------------------------------------------------------------
(* State machine *)

Self == [timeout |-> timeout, follow_redirects |-> follow_redirects,
         adaptor_arguments |-> adaptor_arguments]

\* the constructor arguments of the model: the defaults, and both changed
EngineConfigs ==
    { [timeout |-> None, follow_redirects |-> TRUE],
      [timeout |-> Some(5), follow_redirects |-> FALSE] }

\* StaticEngine.__init__ with any of the model's arguments; no call made yet
Init ==
    /\ \E cfg \in EngineConfigs :
          /\ timeout = cfg.timeout
          /\ follow_redirects = cfg.follow_redirects
    /\ adaptor_arguments = [k \in {"keep_comments"} |-> "no"]
    /\ extra_headers \in generate_headers
    /\ callerMap = EmptyDict
    /\ built = EmptyDict
    /\ pc = "new"
    /\ stealth = FALSE
    /\ target = ""
    /\ supplied = None
    /\ headers = EmptyDict
    /\ invoked = 0
    /\ sent = None
    /\ response = None
    /\ clientError = ""
    /\ error = ""
    /\ result = None

\* the caller fills its dict object
CallerBuild ==
    \E d \in CallerDicts :
        /\ callerMap' = d
        /\ built' = d
        /\ UNCHANGED <<timeout, follow_redirects, adaptor_arguments,
                       extra_headers, pc, stealth, target, supplied, headers, invoked, sent, response,
                       clientError, error, result>>

\* one whole call of get/post/put/delete
Call(method, url, st, kw, g1, g2, reply) ==
    LET arg == IF "headers" \in kw THEN Some(callerMap) ELSE None
        h   == _headers_job(arg, url, st, g1, g2)
        out == dispatch(Self, method, url, h, kw, reply)
    IN  /\ stealth' = st
        /\ target' = url
        /\ supplied' = arg
        /\ headers' = h
        /\ callerMap' = IF Aliased(arg) THEN h ELSE callerMap
        /\ pc' = out.pc
        /\ invoked' = out.invoked
        /\ sent' = out.sent
        /\ response' = out.response
        /\ clientError' = out.clientError
        /\ error' = out.error
        /\ result' = out.result
        /\ UNCHANGED <<timeout, follow_redirects, adaptor_arguments,
                       extra_headers, built>>

get ==
    \E url \in URLs, st \in BOOLEAN, kw \in SUBSET KwNames,
       g1 \in generate_headers, g2 \in generate_headers, reply \in Replies :
        Call("GET", url, st, kw, g1, g2, reply)

post ==
    \E url \in URLs, st \in BOOLEAN, kw \in SUBSET KwNames,
       g1 \in generate_headers, g2 \in generate_headers, reply \in Replies :
        Call("POST", url, st, kw, g1, g2, reply)

delete ==
    \E url \in URLs, st \in BOOLEAN, kw \in SUBSET KwNames,
       g1 \in generate_headers, g2 \in generate_headers, reply \in Replies :
        Call("DELETE", url, st, kw, g1, g2, reply)

put ==
    \E url \in URLs, st \in BOOLEAN, kw \in SUBSET KwNames,
       g1 \in generate_headers, g2 \in generate_headers, reply \in Replies :
        Call("PUT", url, st, kw, g1, g2, reply)

Next == CallerBuild \/ get \/ post \/ delete \/ put

Spec == Init /\ [][Next]_vars

TypeOK ==
    /\ pc \in {"new", "returned", "raised"}
    /\ invoked \in 0..1

----------------------------------------------------------------------------
(* Properties *)

\* the default timeout the constructor documents, in seconds
DefaultTimeout == 10

\* a call has been made
Called == pc # "new"

\* the call passed headers=... among its keyword options
HeadersPassed == supplied # None

\* the supplied mapping of the last call (the empty dict when none was passed)
Supplied == IF supplied = None THEN EmptyDict ELSE TheValue(supplied)

UACount(d) == Cardinality(KeysCI(d, "user-agent"))

RefererCount(d) == Cardinality(KeysCI(d, "referer"))

\* C1: a call that passes a headers mapping among its options reaches the
\* dispatch step: the httpx client is invoked exactly once, with the
\* synthesised mapping as its headers.
C1_HeadersCallDispatches ==
    (Called /\ HeadersPassed) =>
        /\ invoked = 1
        /\ sent # None
        /\ TheValue(sent).headers = headers

\* C2: when the supplied headers hold no User-Agent key in any casing, the
\* mapping handed to the dispatch step holds exactly one User-Agent key
\* (case-insensitively), and its value comes from the user-agent generator;
\* the client, when invoked, receives that mapping.
C2_OneSynthesizedUserAgent ==
    (Called /\ UACount(Supplied) = 0) =>
        /\ UACount(headers) = 1
        /\ \A k \in KeysCI(headers, "user-agent") : headers[k] \in UserAgents
        /\ sent # None => TheValue(sent).headers = headers

\* a stealth-disabled call whose supplied headers lack a User-Agent got one
C2_Witness ==
    /\ Called
    /\ HeadersPassed
    /\ Supplied # EmptyDict
    /\ UACount(Supplied) = 0
    /\ ~stealth
    /\ "User-Agent" \in DOMAIN headers

\* C3: with stealth disabled and a User-Agent key supplied in any casing,
\* the synthesised mapping equals the supplied mapping.
C3_SuppliedUserAgentUntouched ==
    (Called /\ ~stealth /\ HeadersPassed /\ UACount(Supplied) >= 1) =>
        headers = Supplied

\* C4: with stealth enabled the synthesised mapping contains every generated
\* header with its generated value (also where the caller supplied the same
\* key), and a Referer whose value is the referer generated for the target.
C4_StealthSuperset ==
    (Called /\ stealth) =>
        /\ \E g \in generate_headers :
              \A k \in DOMAIN g : k \in DOMAIN headers /\ headers[k] = g[k]
        /\ \E k \in KeysCI(headers, "referer") :
              headers[k] = generate_convincing_referer(target)

\* a stealth call whose supplied Accept collided with the generated one
C4_Witness ==
    /\ Called
    /\ stealth
    /\ HeadersPassed
    /\ "Accept" \in DOMAIN Supplied
    /\ Supplied["Accept"] = "X"
    /\ headers["Accept"] = "text/html"
    /\ headers["referer"] = generate_convincing_referer(target)

\* C5: an engine constructed without a timeout dispatches every request with
\* the default timeout of 10 seconds.
C5_DefaultTimeoutPassed ==
    (timeout = None /\ sent # None) =>
        TheValue(sent).timeout = Some(DefaultTimeout)

\* C6: a failure raised by the client ends the call with that same failure
\* and without a Response, and no call invokes the client more than once.
C6_FailurePropagates ==
    /\ invoked <= 1
    /\ clientError # "" =>
          /\ pc = "raised"
          /\ error = clientError
          /\ result = None

\* the client raised ReadTimeout and the call ended with it
C6_Witness ==
    /\ invoked = 1
    /\ clientError = "ReadTimeout"
    /\ pc = "raised"
    /\ error = "ReadTimeout"

\* C7: whenever the client returns a response, whatever its status code, the
\* call returns a Response whose status is the raw status code.
C7_StatusPassesThrough ==
    response # None =>
        /\ pc = "returned"
        /\ error = ""
        /\ result # None
        /\ TheValue(result).status = TheValue(response).status_code

\* a 404 came back as a Response with status 404
C7_Witness ==
    /\ response # None
    /\ TheValue(response).status_code = 404
    /\ pc = "returned"
    /\ result # None
    /\ TheValue(result).status = 404

\* C8: the Response carries the raw response's status, headers, cookies,
\* text, url, content, reason and request headers, and its encoding is the
\* declared one, or "utf-8" when none is declared.
C8_RoundTrip ==
    (response # None /\ result # None) =>
        LET raw == TheValue(response)
            r   == TheValue(result)
        IN  /\ r.status = raw.status_code
            /\ r.headers = raw.headers
            /\ r.cookies = raw.cookies
            /\ r.text = raw.text
            /\ r.url = str(raw.url)
            /\ r.url = target
            /\ r.content = raw.content
            /\ r.reason = raw.reason_phrase
            /\ r.request_headers = raw.request.headers
            /\ r.request_headers = headers
            /\ raw.encoding # None => r.encoding = TheValue(raw.encoding)
            /\ raw.encoding = None => r.encoding = "utf-8"

\* both encodings happened: none declared, and latin-1 declared
C8_Witness ==
    /\ response # None
    /\ result # None
    /\ TheValue(response).encoding = None
    /\ TheValue(result).encoding = "utf-8"
    /\ TheValue(result).headers # TheValue(result).request_headers

\* C9: no call leaves anything behind: the caller's dict object holds what
\* the caller put in it, every mapping a call receives is one the caller
\* built, and the mapping a stealth-disabled call synthesises is the
\* synthesis of a mapping the caller built.
C9_NoCrossCallMemory ==
    /\ callerMap = built
    /\ HeadersPassed => Supplied \in CallerDicts
    /\ (Called /\ ~stealth /\ HeadersPassed) =>
          \E d \in CallerDicts, g \in generate_headers :
              headers = ValidateHeaders(d, g)

\* C10: when the supplied mapping holds at most one User-Agent key and at
\* most one Referer key (in any casing), the synthesised mapping holds
\* exactly one User-Agent key and at most one Referer key.
C10_NoDuplicateKeys ==
    (Called /\ UACount(Supplied) <= 1 /\ RefererCount(Supplied) <= 1) =>
        /\ UACount(headers) = 1
        /\ RefererCount(headers) <= 1

====
